---- MODULE Spec2Model ----
(***************************************************************************)
(* State-machine model of tiktok_uploader.py: the history file             *)
(* (uploaded_videos.json), the in-memory record of one run of main(), and  *)
(* the steps of main() between its calls to the outside world (listing,    *)
(* download, upload, file open, file write, sleep).  A run of main() is a  *)
(* "pass"; the process may be terminated between any two steps.            *)
(***************************************************************************)
EXTENDS Integers, Sequences, FiniteSets, TLC

\* ---- bounds of the model ----
MaxVideos == 2      \* longest account listing explored
NumIds    == 1      \* number of distinct real video ids (besides 'unknown')
MaxPasses == 3      \* number of runs of main() explored
MaxTitleLen == 120  \* longest video title explored

\* ---- program constants ----
NoId    == -1       \* a listing entry that carries no 'id' key
Unknown == 0        \* the id such an entry gets: entry.get('id', 'unknown')
TitleLimit == 100   \* line 144: len(title) > 100
KeptChars == 97     \* line 144: title[:97]

VARIABLES
  entries,             \* the account's listing as yt-dlp returns it (newest first)
  file,                \* content of UPLOAD_HISTORY_FILE
  pc,                  \* position of the running main(), "idle" between runs
  upload_all,          \* argument of the running main()
  history,             \* main's `history` dict (uploaded_ids aliases its list)
  current_index,       \* main's local current_index (read once, line 191)
  all_videos,          \* main's local all_videos
  idx,                 \* loop variable of line 222 (0-based)
  successful_uploads,
  failed_uploads,
  passes,              \* number of runs of main() started so far
  uploads,             \* per id: how often upload_to_youtube has returned an id
  log,                 \* what the current run has done so far, one event per step
  loaded,              \* the record as load_uploaded_history returned it to this run
  outcome,             \* how the latest run ended ("running" while it runs)
  prev,                \* whether the run before the current one was terminated
                       \* after the save that follows an upload, and at which index
  title,               \* the title upload_to_youtube is called with
  published            \* the title it puts into the request body, once it has

vars == <<entries, file, pc, upload_all, history, current_index, all_videos, idx,
          successful_uploads, failed_uploads, passes, uploads, log, loaded,
          outcome, prev, title, published>>

titleVars == <<title, published>>

mainVars == <<entries, file, pc, upload_all, history, current_index, all_videos, idx,
              successful_uploads, failed_uploads, passes, uploads, log, loaded,
              outcome, prev>>

\* ---- helpers ----
Range(s) == {s[i] : i \in DOMAIN s}

Reverse(s) == [i \in 1..Len(s) |-> s[Len(s) + 1 - i]]

Ids == 1..NumIds

EntryIds == Ids \cup {NoId}

VideoIds == Ids \cup {Unknown}

SeqsUpTo(S, n) == UNION {[1..k -> S] : k \in 0..n}

Event(op, i) == [op |-> op, index |-> i]

NoEvent == Event("none", 0)

LastEvent(l) == IF l = <<>> THEN NoEvent ELSE l[Len(l)]

NoPrev == [killed_after_save |-> FALSE, index |-> 0]

\* ---- the history file ----
ZeroHistory == [uploaded_ids |-> <<>>, current_index |-> 0]

AbsentFile == [content |-> "absent", data |-> ZeroHistory]

\* open(UPLOAD_HISTORY_FILE, 'w') truncates the file; until json.dump has
\* written everything and the file is closed it holds no complete JSON value
PartialFile == [content |-> "partial", data |-> ZeroHistory]

JsonFile(h) == [content |-> "json", data |-> h]

\* load_uploaded_history: zero record when the file does not exist, else
\* json.load, which raises on anything that is not a complete JSON value
load_uploaded_history_mut(f) == [raised |-> FALSE, value |-> ZeroHistory]

load_uploaded_history(f) ==
  IF f.content = "absent" THEN [raised |-> FALSE, value |-> ZeroHistory]
  ELSE IF f.content = "json" THEN [raised |-> FALSE, value |-> f.data]
  ELSE [raised |-> TRUE, value |-> ZeroHistory]

\* ---- listing ----
entry_id(e) == IF e = NoId THEN Unknown ELSE e

\* get_all_tiktok_videos: ids of the entries, reversed to oldest first; any
\* exception is caught and [] returned
get_all_tiktok_videos(ok) ==
  IF ok THEN Reverse([i \in 1..Len(entries) |-> entry_id(entries[i])]) ELSE <<>>

\* ---- main(): the window and the per-item decisions ----
videos_to_process_mut(all, ci, mode) == SubSeq(all, ci + 1, Len(all))

videos_to_process(all, ci, mode) ==
  IF mode THEN SubSeq(all, ci + 1, Len(all)) ELSE <<all[ci + 1]>>

window == videos_to_process(all_videos, current_index, upload_all)

actual_index == current_index + idx

video_to_upload == window[idx + 1]

already_uploaded_mut(id, ids) == FALSE

already_uploaded(id, ids) == id \in Range(ids)

next_index_mut(i) == i

next_index_idx(i) == idx

next_index(i) == i + 1

Logged(op) == log' = Append(log, Event(op, actual_index))

\* ---- upload_to_youtube: the title of the request body ----
Ellipsis == <<".", ".", ".">>

NotPublished == [done |-> FALSE, title |-> <<>>]

\* titles of every length up to MaxTitleLen, in two letterings
TitleOf(n, k) == [i \in 1..n |-> IF (i + k) % 2 = 0 THEN "a" ELSE "b"]

Titles == {TitleOf(n, k) : n \in 0..MaxTitleLen, k \in 0..1}

\* title[:97] + "..." if len(title) > 100 else title
truncate_title_mut(t) ==
  IF Len(t) > TitleLimit THEN SubSeq(t, 1, TitleLimit) \o Ellipsis ELSE t

truncate_title(t) ==
  IF Len(t) > TitleLimit THEN SubSeq(t, 1, KeptChars) \o Ellipsis ELSE t

\* lines 143-148: upload_to_youtube builds the snippet of the request
PublishTitle ==
  /\ ~published.done
  /\ published' = [done |-> TRUE, title |-> truncate_title(title)]
  /\ UNCHANGED <<title, mainVars>>

TitleInit ==
  /\ title \in Titles
  /\ published = NotPublished
  /\ entries = <<>>
  /\ file = AbsentFile
  /\ pc = "idle"
  /\ upload_all = FALSE
  /\ history = ZeroHistory
  /\ current_index = 0
  /\ all_videos = <<>>
  /\ idx = 0
  /\ successful_uploads = 0
  /\ failed_uploads = 0
  /\ passes = 0
  /\ uploads = [i \in VideoIds |-> 0]
  /\ log = <<>>
  /\ loaded = ZeroHistory
  /\ outcome = "none"
  /\ prev = NoPrev

TitleNext == PublishTitle

TitleSpec == TitleInit /\ [][TitleNext]_vars

\* ---- steps of main() ----

\* lines 182-220: load the history, list the account, early returns,
\* authenticate, choose the window
BeginPass_mut(mode, list_ok, auth_ok) ==
  /\ pc = "idle"
  /\ UNCHANGED titleVars
  /\ passes < MaxPasses
  /\ passes' = passes + 1
  /\ upload_all' = mode
  /\ prev' = IF outcome = "killed" /\ LastEvent(log).op \in {"saved", "delay"}
              THEN [killed_after_save |-> TRUE, index |-> LastEvent(log).index]
              ELSE NoPrev
  /\ idx' = 0
  /\ successful_uploads' = 0
  /\ failed_uploads' = 0
  /\ UNCHANGED <<entries, file, uploads>>
  /\ LET r == load_uploaded_history(file)
         vids == get_all_tiktok_videos(list_ok)
     IN IF r.raised
        THEN /\ history' = ZeroHistory
             /\ loaded' = ZeroHistory
             /\ current_index' = 0
             /\ all_videos' = <<>>
             /\ log' = <<Event("load_error", 0)>>
             /\ outcome' = "error"
             /\ pc' = "idle"
        ELSE /\ history' = r.value
             /\ loaded' = r.value
             /\ current_index' = r.value.current_index
             /\ all_videos' = vids
             /\ log' = <<>>
             /\ IF vids = <<>> \/ r.value.current_index > Len(vids)
                THEN outcome' = "returned" /\ pc' = "idle"
                ELSE IF ~auth_ok
                THEN outcome' = "error" /\ pc' = "idle"
                ELSE outcome' = "running" /\ pc' = "loop"

BeginPass(mode, list_ok, auth_ok) ==
  /\ pc = "idle"
  /\ UNCHANGED titleVars
  /\ passes < MaxPasses
  /\ passes' = passes + 1
  /\ upload_all' = mode
  /\ prev' = IF outcome = "killed" /\ LastEvent(log).op \in {"saved", "delay"}
              THEN [killed_after_save |-> TRUE, index |-> LastEvent(log).index]
              ELSE NoPrev
  /\ idx' = 0
  /\ successful_uploads' = 0
  /\ failed_uploads' = 0
  /\ UNCHANGED <<entries, file, uploads>>
  /\ LET r == load_uploaded_history(file)
         vids == get_all_tiktok_videos(list_ok)
     IN IF r.raised
        THEN /\ history' = ZeroHistory
             /\ loaded' = ZeroHistory
             /\ current_index' = 0
             /\ all_videos' = <<>>
             /\ log' = <<Event("load_error", 0)>>
             /\ outcome' = "error"
             /\ pc' = "idle"
        ELSE /\ history' = r.value
             /\ loaded' = r.value
             /\ current_index' = r.value.current_index
             /\ all_videos' = vids
             /\ log' = <<>>
             /\ IF vids = <<>> \/ r.value.current_index >= Len(vids)
                THEN outcome' = "returned" /\ pc' = "idle"
                ELSE IF ~auth_ok
                THEN outcome' = "error" /\ pc' = "idle"
                ELSE outcome' = "running" /\ pc' = "loop"

\* lines 231-233: the item is already in uploaded_ids; save is called next
Skip ==
  /\ pc = "loop"
  /\ UNCHANGED titleVars
  /\ idx < Len(window)
  /\ already_uploaded(video_to_upload, history.uploaded_ids)
  /\ history' = [history EXCEPT !.current_index = next_index(actual_index)]
  /\ pc' = "skip_open"
  /\ Logged("skip")
  /\ UNCHANGED <<entries, file, upload_all, current_index, all_videos, idx,
                 successful_uploads, failed_uploads, passes, uploads, loaded,
                 outcome, prev>>

\* lines 238-243: download_tiktok_video returns a file or None
Download_mut(ok) ==
  /\ pc = "loop"
  /\ UNCHANGED titleVars
  /\ idx < Len(window)
  /\ ~already_uploaded(video_to_upload, history.uploaded_ids)
  /\ IF ok
     THEN /\ pc' = "upload"
          /\ Logged("downloaded")
          /\ UNCHANGED <<failed_uploads, idx, history>>
     ELSE /\ pc' = "loop"
          /\ Logged("download_failed")
          /\ failed_uploads' = failed_uploads + 1
          /\ idx' = idx + 1
          /\ history' = [history EXCEPT !.current_index = next_index(actual_index)]
  /\ UNCHANGED <<entries, file, upload_all, current_index, all_videos,
                 successful_uploads, passes, uploads, loaded, outcome, prev>>

Download(ok) ==
  /\ pc = "loop"
  /\ UNCHANGED titleVars
  /\ idx < Len(window)
  /\ ~already_uploaded(video_to_upload, history.uploaded_ids)
  /\ IF ok
     THEN /\ pc' = "upload"
          /\ Logged("downloaded")
          /\ UNCHANGED <<failed_uploads, idx>>
     ELSE /\ pc' = "loop"
          /\ Logged("download_failed")
          /\ failed_uploads' = failed_uploads + 1
          /\ idx' = idx + 1
  /\ UNCHANGED <<entries, file, upload_all, history, current_index, all_videos,
                 successful_uploads, passes, uploads, loaded, outcome, prev>>

\* lines 246-257 and 271-274: upload_to_youtube returns an id or raises
Upload_mut(ok) ==
  /\ pc = "upload"
  /\ UNCHANGED titleVars
  /\ IF ok
     THEN /\ uploads' = [uploads EXCEPT ![video_to_upload] = @ + 1]
          /\ history' = [uploaded_ids |-> Append(history.uploaded_ids, video_to_upload),
                         current_index |-> next_index(actual_index)]
          /\ pc' = "upload_open"
          /\ Logged("uploaded")
          /\ UNCHANGED <<failed_uploads, idx>>
     ELSE /\ pc' = "loop"
          /\ Logged("upload_failed")
          /\ failed_uploads' = failed_uploads + 1
          /\ idx' = idx + 1
          /\ history' = [history EXCEPT !.uploaded_ids = Append(@, video_to_upload)]
          /\ UNCHANGED uploads
  /\ UNCHANGED <<entries, file, upload_all, current_index, all_videos,
                 successful_uploads, passes, loaded, outcome, prev>>

Upload(ok) ==
  /\ pc = "upload"
  /\ UNCHANGED titleVars
  /\ IF ok
     THEN /\ uploads' = [uploads EXCEPT ![video_to_upload] = @ + 1]
          /\ history' = [uploaded_ids |-> Append(history.uploaded_ids, video_to_upload),
                         current_index |-> next_index(actual_index)]
          /\ pc' = "upload_open"
          /\ Logged("uploaded")
          /\ UNCHANGED <<failed_uploads, idx>>
     ELSE /\ pc' = "loop"
          /\ Logged("upload_failed")
          /\ failed_uploads' = failed_uploads + 1
          /\ idx' = idx + 1
          /\ UNCHANGED <<uploads, history>>
  /\ UNCHANGED <<entries, file, upload_all, current_index, all_videos,
                 successful_uploads, passes, loaded, outcome, prev>>

\* line 37, open(UPLOAD_HISTORY_FILE, 'w'): truncates the file, or raises.
\* Called from line 234 the exception leaves main(); called from line 258 it
\* is caught by the except of line 271
SaveOpen(ok) ==
  /\ pc \in {"skip_open", "upload_open"}
  /\ UNCHANGED titleVars
  /\ IF ok
     THEN /\ file' = PartialFile
          /\ pc' = IF pc = "skip_open" THEN "skip_write" ELSE "upload_write"
          /\ UNCHANGED <<log, failed_uploads, idx, outcome>>
     ELSE /\ UNCHANGED file
          /\ IF pc = "skip_open"
             THEN /\ Logged("skip_save_failed")
                  /\ outcome' = "error"
                  /\ pc' = "idle"
                  /\ UNCHANGED <<failed_uploads, idx>>
             ELSE /\ Logged("save_failed")
                  /\ failed_uploads' = failed_uploads + 1
                  /\ idx' = idx + 1
                  /\ pc' = "loop"
                  /\ UNCHANGED outcome
  /\ UNCHANGED <<entries, upload_all, history, current_index, all_videos,
                 successful_uploads, passes, uploads, loaded, prev>>

\* line 38 and the close of the with block: the whole record reaches the
\* file, or the write raises and the file stays incomplete; then lines 235,
\* 260-269 or 271-274
SaveWrite_mut(ok) ==
  /\ pc \in {"skip_write", "upload_write"}
  /\ UNCHANGED titleVars
  /\ IF ok
     THEN /\ file' = JsonFile(history)
          /\ UNCHANGED <<failed_uploads, outcome>>
          /\ IF pc = "skip_write"
             THEN /\ Logged("skip_saved")
                  /\ idx' = idx + 1
                  /\ pc' = "loop"
                  /\ UNCHANGED successful_uploads
             ELSE /\ Logged("saved")
                  /\ successful_uploads' = successful_uploads + 1
                  /\ IF upload_all
                     THEN pc' = "delay" /\ UNCHANGED idx
                     ELSE pc' = "loop" /\ idx' = idx + 1
     ELSE /\ UNCHANGED <<file, successful_uploads>>
          /\ IF pc = "skip_write"
             THEN /\ Logged("skip_save_failed")
                  /\ outcome' = "error"
                  /\ pc' = "idle"
                  /\ UNCHANGED <<failed_uploads, idx>>
             ELSE /\ Logged("save_failed")
                  /\ failed_uploads' = failed_uploads + 1
                  /\ idx' = idx + 1
                  /\ pc' = "loop"
                  /\ UNCHANGED outcome
  /\ UNCHANGED <<entries, upload_all, history, current_index, all_videos,
                 passes, uploads, loaded, prev>>

SaveWrite(ok) ==
  /\ pc \in {"skip_write", "upload_write"}
  /\ UNCHANGED titleVars
  /\ IF ok
     THEN /\ file' = JsonFile(history)
          /\ UNCHANGED <<failed_uploads, outcome>>
          /\ IF pc = "skip_write"
             THEN /\ Logged("skip_saved")
                  /\ idx' = idx + 1
                  /\ pc' = "loop"
                  /\ UNCHANGED successful_uploads
             ELSE /\ Logged("saved")
                  /\ successful_uploads' = successful_uploads + 1
                  /\ IF upload_all /\ idx < Len(window) - 1
                     THEN pc' = "delay" /\ UNCHANGED idx
                     ELSE pc' = "loop" /\ idx' = idx + 1
     ELSE /\ UNCHANGED <<file, successful_uploads>>
          /\ IF pc = "skip_write"
             THEN /\ Logged("skip_save_failed")
                  /\ outcome' = "error"
                  /\ pc' = "idle"
                  /\ UNCHANGED <<failed_uploads, idx>>
             ELSE /\ Logged("save_failed")
                  /\ failed_uploads' = failed_uploads + 1
                  /\ idx' = idx + 1
                  /\ pc' = "loop"
                  /\ UNCHANGED outcome
  /\ UNCHANGED <<entries, upload_all, history, current_index, all_videos,
                 passes, uploads, loaded, prev>>

\* lines 267-269: time.sleep(10) returns
Delay ==
  /\ pc = "delay"
  /\ UNCHANGED titleVars
  /\ pc' = "loop"
  /\ idx' = idx + 1
  /\ Logged("delay")
  /\ UNCHANGED <<entries, file, upload_all, history, current_index, all_videos,
                 successful_uploads, failed_uploads, passes, uploads, loaded,
                 outcome, prev>>

\* lines 276-290: the window is exhausted, the summary is printed
Summary ==
  /\ pc = "loop"
  /\ UNCHANGED titleVars
  /\ idx = Len(window)
  /\ pc' = "idle"
  /\ outcome' = "summary"
  /\ UNCHANGED <<entries, file, upload_all, history, current_index, all_videos,
                 idx, successful_uploads, failed_uploads, passes, uploads, log,
                 loaded, prev>>

\* the process is terminated from outside while main() runs; the file keeps
\* what it held
Kill ==
  /\ pc # "idle"
  /\ UNCHANGED titleVars
  /\ pc' = "idle"
  /\ outcome' = "killed"
  /\ UNCHANGED <<entries, file, upload_all, history, current_index, all_videos,
                 idx, successful_uploads, failed_uploads, passes, uploads, log,
                 loaded, prev>>

Init ==
  /\ entries \in SeqsUpTo(EntryIds, MaxVideos)
  /\ file = AbsentFile
  /\ pc = "idle"
  /\ upload_all = FALSE
  /\ history = ZeroHistory
  /\ current_index = 0
  /\ all_videos = <<>>
  /\ idx = 0
  /\ successful_uploads = 0
  /\ failed_uploads = 0
  /\ passes = 0
  /\ uploads = [i \in VideoIds |-> 0]
  /\ log = <<>>
  /\ loaded = ZeroHistory
  /\ outcome = "none"
  /\ prev = NoPrev
  /\ title = <<>>
  /\ published = NotPublished

Next ==
  \/ \E mode \in BOOLEAN, list_ok \in BOOLEAN, auth_ok \in BOOLEAN :
        BeginPass(mode, list_ok, auth_ok)
  \/ Skip
  \/ \E ok \in BOOLEAN : Download(ok)
  \/ \E ok \in BOOLEAN : Upload(ok)
  \/ \E ok \in BOOLEAN : SaveOpen(ok)
  \/ \E ok \in BOOLEAN : SaveWrite(ok)
  \/ Delay
  \/ Summary
  \/ Kill

Spec == Init /\ [][Next]_vars

\* runs in which every save succeeds and the process is never terminated
SavesSucceedNext ==
  \/ \E mode \in BOOLEAN, list_ok \in BOOLEAN, auth_ok \in BOOLEAN :
        BeginPass(mode, list_ok, auth_ok)
  \/ Skip
  \/ \E ok \in BOOLEAN : Download(ok)
  \/ \E ok \in BOOLEAN : Upload(ok)
  \/ SaveOpen(TRUE)
  \/ SaveWrite(TRUE)
  \/ Delay
  \/ Summary

SavesSucceedSpec == Init /\ [][SavesSucceedNext]_vars

\* ---- vocabulary of the properties ----

\* the enumeration every successful listing returns (oldest first)
Enumeration == get_all_tiktok_videos(TRUE)

VideoAt(i) == Enumeration[i + 1]

NoRepeatedIds == Cardinality(Range(Enumeration)) = Len(Enumeration)

\* the record a run starting now would load
Persisted == load_uploaded_history(file)

TransferOps == {"downloaded", "download_failed", "uploaded", "upload_failed"}

ItemFailOps == {"download_failed", "upload_failed"}

SaveFailOps == {"save_failed", "skip_save_failed"}

FirstOps == {"skip", "downloaded", "download_failed"}

IsFirstOp(e) == e.op \in FirstOps

\* indices of the items the current run has started on, in the order it did
Considered ==
  LET firsts == SelectSeq(log, IsFirstOp)
  IN [k \in 1..Len(firsts) |-> firsts[k].index]

CountOps(ops) == Cardinality({k \in DOMAIN log : log[k].op \in ops})

\* ids recorded as uploaded before the current run reached index i: those it
\* loaded and those it uploaded and saved itself
DoneBefore(i) ==
  Range(loaded.uploaded_ids) \cup
    {VideoAt(log[k].index) : k \in {m \in DOMAIN log : log[m].op = "saved" /\ log[m].index < i}}

\* ---- C1 ----
\* C1: every index below the persisted current_index holds an item whose id
\* is in the persisted uploaded_ids (the cursor never passes a failed item).
C1_CursorNeverPastFailedItem ==
  file.content = "json" =>
    \A i \in 0..(file.data.current_index - 1) :
      i < Len(Enumeration) => VideoAt(i) \in Range(file.data.uploaded_ids)

\* ---- C2 ----
\* C2: over all runs, failures and terminations, upload_to_youtube completes
\* at most once per item id.
C2_NoItemTransferredTwice == \A id \in VideoIds : uploads[id] <= 1

\* ---- C3 ----
\* C3: an item whose id is in the persisted uploaded_ids is never downloaded
\* or uploaded; when a run reaches it, it is skipped, current_index becomes
\* its index + 1 and that record is what the save writes.
C3_NoTransferOnceRecorded ==
  LET e == LastEvent(log)
  IN /\ e.op \in TransferOps =>
          ~(file.content = "json" /\ VideoAt(e.index) \in Range(file.data.uploaded_ids))
     /\ (pc = "loop" /\ idx < Len(window) /\ file.content = "json"
           /\ video_to_upload \in Range(file.data.uploaded_ids))
          => already_uploaded(video_to_upload, history.uploaded_ids)
     /\ e.op = "skip" => history.current_index = e.index + 1
     /\ e.op = "skip_saved" =>
          file = JsonFile(history) /\ file.data.current_index = e.index + 1

\* a later run has skipped, and saved past, an item recorded by an earlier run
C3_Witness ==
  /\ passes >= 2
  /\ LastEvent(log).op = "skip_saved"
  /\ VideoAt(LastEvent(log).index) \in Range(loaded.uploaded_ids)
  /\ uploads[VideoAt(LastEvent(log).index)] = 1

\* ---- C4 ----
\* C4: when a run that reached its summary had a download or upload failure
\* on the first not-yet-completed item, at index i, the persisted
\* current_index (of a readable history file) is i and the persisted
\* uploaded_ids lacks that item's id, so that the next run starts on it
\* (stated for listings in which no id occurs twice).
C4_FailedItemRetriedFirst ==
  (outcome = "summary" /\ NoRepeatedIds) =>
    \A k \in DOMAIN log :
      (log[k].op \in ItemFailOps
         /\ \A j \in 0..(log[k].index - 1) : VideoAt(j) \in DoneBefore(log[k].index))
      => (~Persisted.raised =>
            /\ Persisted.value.current_index = log[k].index
            /\ VideoAt(log[k].index) \notin Range(Persisted.value.uploaded_ids))

\* ---- C5 ----
\* C5: a failed save ends the run at once with an error: nothing follows it
\* in the run, and it is not counted as a failed upload.
C5_SaveFailureNeverSwallowed ==
  \A k \in DOMAIN log :
    log[k].op \in SaveFailOps =>
      /\ k = Len(log)
      /\ pc = "idle"
      /\ outcome = "error"
      /\ failed_uploads = CountOps(ItemFailOps)

\* ---- C6 ----
\* C6: no run of main() ends on an error raised by load_uploaded_history,
\* whatever the history file holds (absent, complete or incomplete).
C6_LoadNeverFails == \A k \in DOMAIN log : log[k].op # "load_error"

\* ---- C7 ----
\* C7: at every moment the history file is absent or holds one complete
\* record, never a partly written one.
C7_SaveIsAtomic == file.content \in {"absent", "json"}

\* ---- C8 ----
\* C8: when the run before was terminated after the save that followed a
\* successful upload of the item at index i, this run loaded current_index =
\* i + 1 with that id in uploaded_ids and neither downloads nor uploads it.
C8_CrashAfterPersistResumes ==
  prev.killed_after_save =>
    /\ \A k \in DOMAIN log : log[k].op # "load_error"
    /\ loaded.current_index = prev.index + 1
    /\ VideoAt(prev.index) \in Range(loaded.uploaded_ids)
    /\ \A k \in DOMAIN log :
         log[k].op \in TransferOps => VideoAt(log[k].index) # VideoAt(prev.index)

\* the run after such a termination is working on the item behind it
C8_Witness ==
  /\ prev.killed_after_save
  /\ log # <<>>
  /\ LastEvent(log).index = prev.index + 1
  /\ loaded.current_index = prev.index + 1

\* ---- C9 ----
\* C9: a single-mode run works on the item at index c only and leaves
\* current_index in {c, c+1}; a bulk run works on c, c+1, ... in this order,
\* reaches n-1 before its summary and, without a counted failure, ends with
\* the record current_index = n, ids of c..n-1 all in uploaded_ids, saved.
C9_WorkWindowByMode ==
  LET c == current_index
      n == Len(all_videos)
  IN c < n =>
       /\ \A k \in DOMAIN Considered : Considered[k] = c + k - 1
       /\ \A k \in DOMAIN log : log[k].index \in Range(Considered)
       /\ ~upload_all =>
            /\ Len(Considered) <= 1
            /\ history.current_index \in {c, c + 1}
            /\ ~Persisted.raised => Persisted.value.current_index \in {c, c + 1}
            /\ outcome = "summary" => Considered = <<c>>
       /\ upload_all =>
            /\ outcome = "summary" => Len(Considered) = n - c
            /\ (outcome = "summary" /\ failed_uploads = 0) =>
                 /\ file = JsonFile(history)
                 /\ file.data.current_index = n
                 /\ \A i \in c..(n - 1) : VideoAt(i) \in Range(file.data.uploaded_ids)

\* a bulk run over at least two items has ended without a failure
C9_Witness ==
  /\ upload_all
  /\ outcome = "summary"
  /\ failed_uploads = 0
  /\ Len(all_videos) - current_index >= 2
  /\ successful_uploads >= 1
  /\ Len(Considered) = Len(all_videos) - current_index

\* ---- C10 ----
\* the run started with a loaded record that holds the id of every listed item
AllListedDone ==
  /\ passes >= 1
  /\ Enumeration # <<>>
  /\ \A k \in DOMAIN log : log[k].op # "load_error"
  /\ Range(Enumeration) \subseteq Range(loaded.uploaded_ids)

\* C10 (as stated): such a run downloads and uploads nothing and leaves the
\* persisted record equal to the one it loaded.
C10_IdempotentPass ==
  AllListedDone =>
    /\ \A k \in DOMAIN log : log[k].op \notin TransferOps
    /\ file.content = "json" => file.data = loaded

\* C10 (amended): such a run downloads and uploads nothing; every record it
\* saves has the loaded uploaded_ids and a current_index that is not below
\* the loaded one and not above the number of items (not above c+1 in single
\* mode); with current_index >= number of items it saves nothing.
C10_IdempotentPassAmended ==
  AllListedDone =>
    /\ \A k \in DOMAIN log : log[k].op \notin TransferOps
    /\ history.uploaded_ids = loaded.uploaded_ids
    /\ file.content = "json" =>
         /\ file.data.uploaded_ids = loaded.uploaded_ids
         /\ file.data.current_index >= loaded.current_index
         /\ file.data.current_index <= IF loaded.current_index >= Len(Enumeration)
                                       THEN loaded.current_index
                                       ELSE IF upload_all THEN Len(Enumeration)
                                       ELSE loaded.current_index + 1
    /\ loaded.current_index >= Len(Enumeration) => log = <<>>

\* such a run has skipped an item and saved the advanced current_index
C10_Witness ==
  /\ AllListedDone
  /\ LastEvent(log).op = "skip_saved"
  /\ file.content = "json"
  /\ file.data.current_index = loaded.current_index + 1
  /\ file.data.uploaded_ids = loaded.uploaded_ids

\* ---- C11 ----
\* C11: the persisted current_index never decreases: within a run the
\* in-memory current_index never decreases and is never below the one in the
\* file, every record written is the in-memory record, and a run starts from
\* the current_index the file holds.
C11_CursorMonotone ==
  /\ [](file.content = "json" => history.current_index >= file.data.current_index)
  /\ [][/\ passes' = passes => history'.current_index >= history.current_index
        /\ (file'.content = "json" /\ file' # file) =>
              /\ file'.data = history'
              /\ file.content = "json" => file'.data.current_index >= file.data.current_index
        /\ (passes' # passes /\ file.content = "json") =>
              history'.current_index = file.data.current_index]_vars

\* a later run has saved a current_index above the positive one it loaded
C11_Witness ==
  /\ passes >= 2
  /\ loaded.current_index >= 1
  /\ file.content = "json"
  /\ file.data.current_index > loaded.current_index

\* ---- C12 ----
\* C12: every run of main() that is not terminated from outside ends by
\* printing the summary; none ends by an early return or a raised error.
C12_EveryPassEndsWithSummary == outcome \notin {"returned", "error"}
\* ---- C13 ----
\* C13: the published title has at most 100 characters; a title of more than
\* 100 characters is published as its first 97 characters followed by three
\* dots (100 in all), a title of at most 100 characters unchanged.
C13_TitleTruncation ==
  published.done =>
    LET p == published.title
    IN /\ Len(p) <= 100
       /\ Len(title) > 100 =>
            /\ Len(p) = 100
            /\ \A i \in 1..97 : p[i] = title[i]
            /\ \A i \in 98..100 : p[i] = "."
       /\ Len(title) <= 100 => p = title

\* a title of 120 characters has been published with 100
C13_Witness ==
  /\ published.done
  /\ Len(title) = 120
  /\ Len(published.title) = 100
\* ---- C14 ----
\* C14: a step in which the download or the upload of an item fails leaves
\* the in-memory record and the history file as they were, counts one more
\* failure and moves on to the next index of the window, where the loop goes
\* on with that item whenever the window has one.
C14_FailureChangesNothing ==
  /\ [][(Len(log') = Len(log) + 1 /\ LastEvent(log').op \in ItemFailOps) =>
          /\ history' = history
          /\ file' = file
          /\ current_index' = current_index
          /\ failed_uploads' = failed_uploads + 1
          /\ successful_uploads' = successful_uploads
          /\ pc' = "loop"
          /\ idx' = idx + 1]_vars
  /\ []((pc = "loop" /\ idx < Len(window)) =>
          ENABLED (Skip \/ \E ok \in BOOLEAN : Download(ok)))

\* a bulk run has gone on to the next item after a failed one
C14_Witness ==
  /\ upload_all
  /\ \E k \in DOMAIN log :
       /\ log[k].op \in ItemFailOps
       /\ k < Len(log)
       /\ log[k + 1].index = log[k].index + 1
\* ---- C15 ----
\* C15: a run whose listing is empty (or failed) or whose loaded
\* current_index is not below the number of listed items returns at once: it
\* does no download, upload or save, and the history file is still what it
\* loaded.
C15_EarlyEndMutatesNothing ==
  (/\ passes >= 1
   /\ \A k \in DOMAIN log : log[k].op # "load_error"
   /\ all_videos = <<>> \/ current_index >= Len(all_videos)) =>
    /\ pc = "idle"
    /\ outcome = "returned"
    /\ log = <<>>
    /\ history = loaded
    /\ successful_uploads = 0
    /\ failed_uploads = 0
    /\ \/ file = JsonFile(loaded)
       \/ file = AbsentFile /\ loaded = ZeroHistory

\* a run has returned early on a history file that an earlier run wrote
C15_Witness ==
  /\ passes >= 2
  /\ outcome = "returned"
  /\ all_videos # <<>>
  /\ current_index >= Len(all_videos)
  /\ file = JsonFile(loaded)
\* ---- C16 ----
\* C16: whenever the loop starts on an item, the history file holds exactly
\* the in-memory record (same current_index, same uploaded_ids).
C16_PersistedBeforeNextItem ==
  (pc = "loop" /\ idx < Len(window)) =>
    /\ ~Persisted.raised
    /\ Persisted.value = history
\* ---- C17 ----
\* C17: the persisted uploaded_ids holds no id twice, and every id in it that
\* the run did not load was added by the save of its own item (the save
\* after its upload, which writes current_index = its index + 1).
C17_IdsUniqueAndSavedWithCursor ==
  file.content = "json" =>
    /\ Len(file.data.uploaded_ids) = Cardinality(Range(file.data.uploaded_ids))
    /\ \A id \in Range(file.data.uploaded_ids) \ Range(loaded.uploaded_ids) :
         \E k \in DOMAIN log : log[k].op = "saved" /\ VideoAt(log[k].index) = id
\* ---- C18 ----
\* C18: a run sleeps only in bulk mode, only right after the save that
\* follows a successful upload, and never after the last item of the window.
C18_DelayPlacement ==
  /\ pc = "delay" =>
       /\ upload_all
       /\ LastEvent(log) = Event("saved", actual_index)
       /\ file = JsonFile(history)
       /\ idx < Len(window) - 1
  /\ \A k \in DOMAIN log :
       log[k].op = "delay" =>
         /\ upload_all
         /\ k > 1
         /\ log[k - 1] = Event("saved", log[k].index)
         /\ log[k].index < Len(all_videos) - 1

\* a bulk run has slept after its first item and gone on
C18_Witness ==
  /\ upload_all
  /\ \E k \in DOMAIN log : log[k].op = "delay"
  /\ outcome = "summary"
\* ---- C19 ----
\* C19: every id in the persisted uploaded_ids is the id of an item for which
\* upload_to_youtube has returned successfully (no run starts from a record
\* with ids: the first one finds no history file).
C19_NoPhantomCompletion ==
  file.content = "json" =>
    \A id \in Range(file.data.uploaded_ids) : uploads[id] >= 1

\* a record was saved in a run in which another item failed and is not recorded
C19_Witness ==
  /\ file.content = "json"
  /\ file.data.uploaded_ids # <<>>
  /\ \E k \in DOMAIN log :
       /\ log[k].op \in ItemFailOps
       /\ VideoAt(log[k].index) \notin Range(file.data.uploaded_ids)
       /\ uploads[VideoAt(log[k].index)] = 0
\* ---- C20 ----
\* C20: with saves that succeed and no termination, repeated runs can always
\* still complete the transfer: the history file never holds a current_index
\* at or past the end of the listing (from where every later run returns at
\* once) while the id of a listed item is missing from uploaded_ids.
C20_CompletionStaysPossible ==
  ~(/\ file.content = "json"
    /\ file.data.current_index >= Len(Enumeration)
    /\ \E i \in 0..(Len(Enumeration) - 1) : VideoAt(i) \notin Range(file.data.uploaded_ids))
====
